---- MODULE Spec2Model ----
(***************************************************************************)
(* The dispatch-and-aggregate skeleton of panw-utils.  One run of one of   *)
(* the command line tools: main starts a daemon print_manager (and, in     *)
(* get_panw_interfaces, a daemon results_manager), one worker thread per   *)
(* target, joins the workers, joins the queues and calls sys.exit(0).      *)
(* get_panw_config_set has no threads: it contacts the hosts one after the *)
(* other in the main thread.  SIGINT runs sigint_handler in the main       *)
(* thread, which raises SystemExit(1) there.                               *)
(***************************************************************************)
EXTENDS Integers, Sequences, FiniteSets, TLC

\* Bounds of the model.
MaxHosts == 2
MaxSigint == 2
MaxRuns == 2

\* Host names a target list is drawn from (duplicates are legal).
Hosts == {"fw-a", "fw-b"}

\* The tools (get_panw_config has two worker functions, get_panw_interfaces
\* has a raw-output mode in which workers use print_queue).
Tools == {"get_panw_api_key", "get_panw_config_xml", "get_panw_config_ssh",
          "run_panw_cmd", "get_panw_interfaces", "get_panw_interfaces_raw",
          "get_panw_config_set"}

Sequential(t) == t = "get_panw_config_set"

UsesResultsQueue(t) == t = "get_panw_interfaces"

HasResultsManager(t) == t \in {"get_panw_interfaces", "get_panw_interfaces_raw"}

\* What the transport does for one host: "ok", "connect" (urlopen raises
\* OSError / ConnectHandler raises), "reply" (the reply cannot be used:
\* no <key> element, a parse error, send_command raises).
Fates(t) ==
    IF t \in {"get_panw_config_xml", "get_panw_interfaces_raw"}
    THEN {"ok", "connect"}
    ELSE {"ok", "connect", "reply"}

\* The lines of the job a successful worker puts on print_queue.
JobLines(t) ==
    CASE t = "get_panw_api_key" -> <<"key">>
      [] t \in {"get_panw_config_xml", "get_panw_config_ssh"} ->
            <<"rule", "name", "rule", "config">>
      [] t = "run_panw_cmd" -> <<"rule", "name", "rule", "cmd", "output", "blank">>
      [] t = "get_panw_interfaces_raw" -> <<"xml">>
      [] OTHER -> <<>>

\* What a failing worker thread writes to stderr itself, in order: "error"
\* is the sys.stderr.write of the except clause, "traceback" is the report
\* threading prints for an exception that is not SystemExit (a SystemExit
\* raised in a thread ends the thread silently).
\*   get_panw_api_key: raise SystemExit(...) in both except clauses.
\*   get_panw_config query_api: stderr.write, return.
\*   connect_ssh: stderr.write, sys.exit(1); when ConnectHandler raised,
\*     net_connect is unbound in the finally clause (UnboundLocalError).
\*   get_panw_interfaces: query_api writes and returns None, the worker
\*     then fails on None (xml.split / ET.fromstring); a TypeError of the
\*     parse is turned into SystemExit.
FailureWrites(t, f) ==
    CASE t = "get_panw_api_key" -> <<>>
      [] t = "get_panw_config_xml" -> <<"error">>
      [] t \in {"get_panw_config_ssh", "run_panw_cmd"} ->
            IF f = "connect" THEN <<"error", "traceback">> ELSE <<"error">>
      [] t \in {"get_panw_interfaces", "get_panw_interfaces_raw"} ->
            IF f = "connect" THEN <<"error", "traceback">> ELSE <<>>
      [] OTHER -> <<>>

\* Whether the text of a written line contains the host name: the banner
\* line f'= {host} =', a table row (column Firewall), and the failure line
\* of the tools that format the host into it.
RefsHost(t, kind) ==
    CASE kind = "error" -> t \in {"get_panw_config_xml", "get_panw_config_ssh",
                                  "get_panw_interfaces", "get_panw_interfaces_raw"}
      [] kind \in {"name", "row"} -> TRUE
      [] OTHER -> FALSE

VARIABLES
    tool,               \* which tool runs
    supplied,           \* the targets given to the run: piped (stdin is not
                        \* a terminal) and the list read from stdin or argv
    run,                \* how many times main has been called in this process
    inventory,          \* get_panw_firewalls: its arguments, the device
                        \* entries of the reply, the position of parse_xml,
                        \* the dict results and the rows printed
    firewalls,          \* args.firewalls / args.hosts: the target list
    fate,               \* fate[i]: what the transport does for firewalls[i]
    pc,                 \* position of the main thread
    nxt,                \* index of the next element of the for loop
    wpc,                \* wpc[i]: position of the worker of firewalls[i]
    print_queue,        \* queue.Queue(): the jobs waiting
    print_unfinished,   \* print_queue.unfinished_tasks
    results_queue,
    results_unfinished,
    pm,                 \* print_manager: the job it holds and the next line
    rm,                 \* results_manager: i holds result i, -i appended it
    results,            \* the module-level list results
    stdout,             \* the lines written to sys.stdout, in order
    stderr,             \* the lines written to sys.stderr, in order
    sigints,            \* SIGINTs delivered
    caught,             \* the workers that were inside the operation when
                        \* the first SIGINT arrived (history)
    exit_code           \* -1 while running, then the status passed to sys.exit

vars == <<tool, supplied, run, inventory, firewalls, fate, pc, nxt, wpc, print_queue, print_unfinished,
          results_queue, results_unfinished, pm, rm, results, stdout, stderr,
          sigints, caught, exit_code>>

N == Len(firewalls)

Idle == [job |-> 0, line |-> 0]

\* print_manager has ended on an exception (pm.line = -1).
PMDead == pm.line = -1

\* The target lists of the model: host names only label the output, so the
\* lists that differ by renaming the hosts are represented by the one that
\* starts with "fw-a".
TargetLists ==
    {fs \in UNION {[1..n -> Hosts] : n \in 0..MaxHosts} :
        fs # <<>> => fs[1] = "fw-a"}

\* The tools of Tools do not query the controller.
NoInventory == [pc |-> "none"]

\* settings['default_firewall'] and the characters of that string.
DefaultFirewall == "fw"

Chars(s) == IF s = "fw" THEN <<"f", "w">> ELSE <<s>>

\* What is given to a run.  Where the list comes from matters only when
\* it is empty, so a non-empty list is taken from argv.
Supplied ==
    {[piped |-> p, targets |-> fs] : p \in BOOLEAN, fs \in TargetLists}
    \ {[piped |-> TRUE, targets |-> fs] : fs \in TargetLists \ {<<>>}}

\* The target list main works on, from what was given:
\*   get_panw_api_key, get_panw_config_set: the lines of a piped stdin,
\*     whatever they are; without a pipe an empty argv list becomes the
\*     default firewall ("elif not args.hosts").
\*   get_panw_config, run_panw_cmd: an empty list becomes the default
\*     firewall also when it was piped ("if not args.firewalls").
\*   get_panw_interfaces: as the first, then "if not args.firewalls:
\*     args.firewalls = settings['default_firewall']" makes an empty piped
\*     list the string itself, which the for loop iterates by character.
Resolve(t, s) ==
    IF s.targets # <<>> THEN s.targets
    ELSE CASE t \in {"get_panw_api_key", "get_panw_config_set"} ->
                IF s.piped THEN <<>> ELSE <<DefaultFirewall>>
           [] t \in {"get_panw_interfaces", "get_panw_interfaces_raw"} ->
                IF s.piped THEN Chars(DefaultFirewall) ELSE <<DefaultFirewall>>
           [] OTHER -> <<DefaultFirewall>>

Init ==
    /\ tool \in Tools
    /\ supplied \in Supplied
    /\ run = 1
    /\ inventory = NoInventory
    /\ firewalls = Resolve(tool, supplied)
    /\ fate \in [1..Len(firewalls) -> Fates(tool)]
    /\ pc = "dispatch"
    /\ nxt = 1
    /\ wpc = [i \in 1..Len(firewalls) |-> "new"]
    /\ print_queue = <<>>
    /\ print_unfinished = 0
    /\ results_queue = <<>>
    /\ results_unfinished = 0
    /\ pm = Idle
    /\ rm = 0
    /\ results = <<>>
    /\ stdout = <<>>
    /\ stderr = <<>>
    /\ sigints = 0
    /\ caught = {}
    /\ exit_code = -1

Alive == pc # "exited"

\* A written line: the thread that wrote it, the target it is about (0 for
\* none) and what it is.
Line(by, i, kind) == [by |-> by, tgt |-> i, kind |-> kind]

Started == {i \in 1..N : wpc[i] # "new"}

Running == {i \in 1..N : wpc[i] \notin {"new", "done"}}

\* Workers inside the per-host operation.
InFlight == {i \in 1..N : wpc[i] = "op"}

\* ------------------------------------------------------------------------
\* Main thread of the threaded tools.

\* Mutant: a host that is already in the list before position nxt gets
\* no worker of its own.
DispatchOncePerHost ==
    /\ pc = "dispatch"
    /\ ~Sequential(tool)
    /\ IF nxt <= N
       THEN /\ wpc' = [wpc EXCEPT ![nxt] =
                          IF \E j \in 1..(nxt - 1) : firewalls[j] = firewalls[nxt]
                          THEN "done" ELSE "op"]
            /\ nxt' = nxt + 1
            /\ pc' = pc
       ELSE /\ pc' = "join"
            /\ UNCHANGED <<wpc, nxt>>
    /\ UNCHANGED <<tool, supplied, run, inventory, firewalls, fate, print_queue,
                   print_unfinished, results_queue, results_unfinished, pm,
                   rm, results, stdout, stderr, sigints, caught, exit_code>>

\* One iteration of "for host in args.firewalls": create and start the
\* worker thread of the next host; the exhausted loop falls through to the
\* joins.
Dispatch ==
    /\ pc = "dispatch"
    /\ ~Sequential(tool)
    /\ IF nxt <= N
       THEN /\ wpc' = [wpc EXCEPT ![nxt] = "op"]
            /\ nxt' = nxt + 1
            /\ pc' = pc
       ELSE /\ pc' = "join"
            /\ UNCHANGED <<wpc, nxt>>
    /\ UNCHANGED <<tool, supplied, run, inventory, firewalls, fate, print_queue, print_unfinished,
                   results_queue, results_unfinished, pm, rm, results, stdout, stderr,
                   sigints, caught, exit_code>>

\* "for t in worker_threads: t.join()" returns when every worker has ended.
AllJoined == \A i \in 1..N : wpc[i] = "done"

\* Mutant: main goes on without joining the worker threads.
JoinWorkersNoWait ==
    /\ pc = "join"
    /\ pc' = IF HasResultsManager(tool) THEN "results_join" ELSE "print_join"
    /\ UNCHANGED <<tool, supplied, run, inventory, firewalls, fate, nxt, wpc, print_queue,
                   print_unfinished, results_queue, results_unfinished, pm,
                   rm, results, stdout, stderr, sigints, caught, exit_code>>

JoinWorkers ==
    /\ pc = "join"
    /\ AllJoined
    /\ pc' = IF HasResultsManager(tool) THEN "results_join" ELSE "print_join"
    /\ UNCHANGED <<tool, supplied, run, inventory, firewalls, fate, nxt, wpc, print_queue,
                   print_unfinished, results_queue, results_unfinished, pm,
                   rm, results, stdout, stderr, sigints, caught, exit_code>>

\* Mutant: a join that does not wait for task_done.
QueueJoinedNoWait(unfinished) == TRUE

\* Queue.join() returns when unfinished_tasks is zero.
QueueJoined(unfinished) == unfinished = 0

ResultsJoin ==
    /\ pc = "results_join"
    /\ QueueJoined(results_unfinished)
    /\ pc' = "print_join"
    /\ UNCHANGED <<tool, supplied, run, inventory, firewalls, fate, nxt, wpc, print_queue,
                   print_unfinished, results_queue, results_unfinished, pm,
                   rm, results, stdout, stderr, sigints, caught, exit_code>>

PrintJoin ==
    /\ pc = "print_join"
    /\ QueueJoined(print_unfinished)
    /\ pc' = IF HasResultsManager(tool) THEN "print_results" ELSE "exit"
    /\ UNCHANGED <<tool, supplied, run, inventory, firewalls, fate, nxt, wpc, print_queue,
                   print_unfinished, results_queue, results_unfinished, pm,
                   rm, results, stdout, stderr, sigints, caught, exit_code>>

\* print_results(args, results): print('\n'), the header on stderr, then
\* the rows of each element of results in list order.
RECURSIVE Rows(_)
Rows(rs) ==
    IF rs = <<>> THEN <<>>
    ELSE <<Line("main", Head(rs), "row")>> \o Rows(Tail(rs))

PrintResults ==
    /\ pc = "print_results"
    /\ stderr' = Append(stderr, Line("main", 0, "header"))
    /\ stdout' = stdout \o <<Line("main", 0, "blank")>> \o Rows(results)
    /\ pc' = "exit"
    /\ UNCHANGED <<tool, supplied, run, inventory, firewalls, fate, nxt, wpc, print_queue,
                   print_unfinished, results_queue, results_unfinished, pm,
                   rm, results, sigints, caught, exit_code>>

\* The final sys.exit(0).
FinalExit ==
    /\ pc = "exit"
    /\ exit_code' = 0
    /\ pc' = "shutdown"
    /\ UNCHANGED <<tool, supplied, run, inventory, firewalls, fate, nxt, wpc, print_queue,
                   print_unfinished, results_queue, results_unfinished, pm,
                   rm, results, stdout, stderr, sigints, caught>>

\* Mutant: the workers are daemon threads, the interpreter does not wait
\* for them.
ShutdownNoJoin ==
    /\ pc = "shutdown"
    /\ pc' = "exited"
    /\ UNCHANGED <<tool, supplied, run, inventory, firewalls, fate, nxt, wpc, print_queue,
                   print_unfinished, results_queue, results_unfinished, pm,
                   rm, results, stdout, stderr, sigints, caught, exit_code>>

\* Mutant: the process also waits for the queues to drain before it ends.
ShutdownDrainsQueues ==
    /\ pc = "shutdown"
    /\ Running = {}
    /\ print_unfinished = 0
    /\ results_unfinished = 0
    /\ pc' = "exited"
    /\ UNCHANGED <<tool, supplied, run, inventory, firewalls, fate, nxt, wpc, print_queue,
                   print_unfinished, results_queue, results_unfinished, pm,
                   rm, results, stdout, stderr, sigints, caught, exit_code>>

\* Interpreter shutdown after SystemExit in the main thread: threading
\* joins the non-daemon threads (the workers that were started), then the
\* process ends and the daemon threads with it.
Shutdown ==
    /\ pc = "shutdown"
    /\ Running = {}
    /\ pc' = "exited"
    /\ UNCHANGED <<tool, supplied, run, inventory, firewalls, fate, nxt, wpc, print_queue,
                   print_unfinished, results_queue, results_unfinished, pm,
                   rm, results, stdout, stderr, sigints, caught, exit_code>>

\* Mutant: the handler only records the interrupt and returns; main goes on.
SigintFlagOnly ==
    /\ pc # "exited"
    /\ pc = "shutdown" => Running # {}
    /\ sigints < MaxSigint
    /\ sigints' = sigints + 1
    /\ caught' = IF sigints = 0 THEN InFlight ELSE caught
    /\ UNCHANGED <<tool, supplied, run, inventory, firewalls, fate, pc, nxt, wpc, print_queue,
                   print_unfinished, results_queue, results_unfinished, pm,
                   rm, results, stdout, stderr, exit_code>>

\* Mutant: the handler calls sys.exit(0).
SigintExitsZero ==
    /\ pc # "exited"
    /\ pc = "shutdown" => Running # {}
    /\ sigints < MaxSigint
    /\ sigints' = sigints + 1
    /\ caught' = IF sigints = 0 THEN InFlight ELSE caught
    /\ exit_code' = IF pc = "shutdown" THEN exit_code ELSE 0
    /\ pc' = IF pc = "shutdown" THEN "exited" ELSE "shutdown"
    /\ wpc' = IF Sequential(tool)
              THEN [i \in 1..N |-> IF wpc[i] = "op" THEN "done" ELSE wpc[i]]
              ELSE wpc
    /\ stderr' = IF pc = "shutdown"
                 THEN Append(stderr, Line("main", 0, "traceback"))
                 ELSE stderr
    /\ UNCHANGED <<tool, supplied, run, inventory, firewalls, fate, nxt, print_queue,
                   print_unfinished, results_queue, results_unfinished, pm,
                   rm, results, stdout>>

\* SIGINT: sigint_handler runs in the main thread and calls sys.exit(1);
\* the SystemExit unwinds main from wherever it is.  In the sequential tool
\* the operation in progress is abandoned with it.  When main is already
\* in the interpreter's shutdown, blocked in the join of a worker, the
\* SystemExit ends that wait: threading reports it on stderr as an ignored
\* exception, the status stays what it was and the process ends without
\* the workers.
Sigint ==
    /\ pc # "exited"
    /\ pc = "shutdown" => Running # {}
    /\ sigints < MaxSigint
    /\ sigints' = sigints + 1
    /\ caught' = IF sigints = 0 THEN InFlight ELSE caught
    /\ exit_code' = IF pc = "shutdown" THEN exit_code ELSE 1
    /\ pc' = IF pc = "shutdown" THEN "exited" ELSE "shutdown"
    /\ wpc' = IF Sequential(tool)
              THEN [i \in 1..N |-> IF wpc[i] = "op" THEN "done" ELSE wpc[i]]
              ELSE wpc
    /\ stderr' = IF pc = "shutdown"
                 THEN Append(stderr, Line("main", 0, "traceback"))
                 ELSE stderr
    /\ UNCHANGED <<tool, supplied, run, inventory, firewalls, fate, nxt, print_queue,
                   print_unfinished, results_queue, results_unfinished, pm,
                   rm, results, stdout>>

\* ------------------------------------------------------------------------
\* Worker threads.

\* The operation succeeds and the worker puts its job on its queue.
WorkerSucceed(i) ==
    /\ Alive
    /\ ~Sequential(tool)
    /\ wpc[i] = "op"
    /\ fate[i] = "ok"
    /\ wpc' = [wpc EXCEPT ![i] = "done"]
    /\ IF UsesResultsQueue(tool)
       THEN /\ results_queue' = Append(results_queue, i)
            /\ results_unfinished' = results_unfinished + 1
            /\ UNCHANGED <<print_queue, print_unfinished>>
       ELSE /\ print_queue' = Append(print_queue, i)
            /\ print_unfinished' = print_unfinished + 1
            /\ UNCHANGED <<results_queue, results_unfinished>>
    /\ UNCHANGED <<tool, supplied, run, inventory, firewalls, fate, pc, nxt, pm, rm, results, stdout, stderr,
                   sigints, caught, exit_code>>

\* Position of a worker that has k of its own stderr writes behind it.
AfterWrites(t, f, k) ==
    IF k < Len(FailureWrites(t, f))
    THEN IF k = 0 THEN "w1" ELSE "w2"
    ELSE "done"

\* Mutant: the failing worker goes on to put a job (a missing return in the
\* except clause).
WorkerFailPutsJob(i) ==
    /\ Alive
    /\ ~Sequential(tool)
    /\ wpc[i] = "op"
    /\ fate[i] # "ok"
    /\ wpc' = [wpc EXCEPT ![i] = "done"]
    /\ IF UsesResultsQueue(tool)
       THEN /\ results_queue' = Append(results_queue, i)
            /\ results_unfinished' = results_unfinished + 1
            /\ UNCHANGED <<print_queue, print_unfinished>>
       ELSE /\ print_queue' = Append(print_queue, i)
            /\ print_unfinished' = print_unfinished + 1
            /\ UNCHANGED <<results_queue, results_unfinished>>
    /\ UNCHANGED <<tool, supplied, run, inventory, firewalls, fate, pc, nxt, pm, rm, results, stdout, stderr,
                   sigints, caught, exit_code>>

\* The operation fails: the except clause (or the crash that follows a
\* None reply) is entered; nothing is put on a queue.
WorkerFail(i) ==
    /\ Alive
    /\ ~Sequential(tool)
    /\ wpc[i] = "op"
    /\ fate[i] # "ok"
    /\ wpc' = [wpc EXCEPT ![i] = AfterWrites(tool, fate[i], 0)]
    /\ UNCHANGED <<tool, supplied, run, inventory, firewalls, fate, pc, nxt, print_queue,
                   print_unfinished, results_queue, results_unfinished, pm,
                   rm, results, stdout, stderr, sigints, caught, exit_code>>

\* The failing worker writes to stderr from its own thread.
WorkerWrite(i) ==
    /\ Alive
    /\ wpc[i] \in {"w1", "w2"}
    /\ LET k == IF wpc[i] = "w1" THEN 1 ELSE 2
       IN /\ stderr' = Append(stderr, Line("worker", i,
                                           FailureWrites(tool, fate[i])[k]))
          /\ UNCHANGED stdout
          /\ wpc' = [wpc EXCEPT ![i] = AfterWrites(tool, fate[i], k)]
    /\ UNCHANGED <<tool, supplied, run, inventory, firewalls, fate, pc, nxt, print_queue,
                   print_unfinished, results_queue, results_unfinished, pm,
                   rm, results, sigints, caught, exit_code>>

\* ------------------------------------------------------------------------
\* print_manager (daemon thread).

\* Mutant: the manager turns to the next job as soon as one is waiting and
\* puts the job it was printing back on the queue.
PMGetPreempts ==
    /\ Alive
    /\ ~Sequential(tool)
    /\ ~PMDead
    /\ print_queue # <<>>
    /\ pm' = [job |-> Head(print_queue), line |-> 1]
    /\ print_queue' = Tail(print_queue)
                        \o (IF pm = Idle THEN <<>> ELSE <<pm.job>>)
    /\ UNCHANGED <<tool, supplied, run, inventory, firewalls, fate, pc, nxt, wpc,
                   print_unfinished, results_queue, results_unfinished, rm,
                   results, stdout, stderr, sigints, caught, exit_code>>

\* Mutant: the manager takes the job that was put last (a LifoQueue).
PMGetLast ==
    /\ Alive
    /\ ~Sequential(tool)
    /\ pm = Idle
    /\ print_queue # <<>>
    /\ pm' = [job |-> print_queue[Len(print_queue)], line |-> 1]
    /\ print_queue' = SubSeq(print_queue, 1, Len(print_queue) - 1)
    /\ UNCHANGED <<tool, supplied, run, inventory, firewalls, fate, pc, nxt, wpc,
                   print_unfinished, results_queue, results_unfinished, rm,
                   results, stdout, stderr, sigints, caught, exit_code>>

\* Mutant: the manager reads the first job and leaves it on the queue.
PMGetNoRemove ==
    /\ Alive
    /\ ~Sequential(tool)
    /\ pm = Idle
    /\ print_queue # <<>>
    /\ pm' = [job |-> Head(print_queue), line |-> 1]
    /\ UNCHANGED <<tool, supplied, run, inventory, firewalls, fate, pc, nxt, wpc,
                   print_queue, print_unfinished, results_queue,
                   results_unfinished, rm, results, stdout, stderr, sigints,
                   caught, exit_code>>

\* print_queue.get(): the job at the head leaves the queue and is held by
\* the one print_manager thread.
PMGet ==
    /\ Alive
    /\ ~Sequential(tool)
    /\ pm = Idle
    /\ print_queue # <<>>
    /\ pm' = [job |-> Head(print_queue), line |-> 1]
    /\ print_queue' = Tail(print_queue)
    /\ UNCHANGED <<tool, supplied, run, inventory, firewalls, fate, pc, nxt, wpc, print_unfinished,
                   results_queue, results_unfinished, rm, results, stdout, stderr,
                   sigints, caught, exit_code>>

PMPrint ==
    /\ Alive
    /\ pm # Idle
    /\ pm.line \in 1..Len(JobLines(tool))
    /\ stdout' = Append(stdout, Line("print_manager", pm.job,
                                     JobLines(tool)[pm.line]))
    /\ UNCHANGED stderr
    /\ pm' = [pm EXCEPT !.line = @ + 1]
    /\ UNCHANGED <<tool, supplied, run, inventory, firewalls, fate, pc, nxt, wpc, print_queue,
                   print_unfinished, results_queue, results_unfinished, rm,
                   results, sigints, caught, exit_code>>

\* print(line) raises in print_manager (the output sink is broken, e.g.
\* BrokenPipeError): nothing catches it, threading reports the exception on
\* stderr and the thread ends holding its job; task_done is never called
\* for it.
PMRaise ==
    /\ Alive
    /\ pm # Idle
    /\ pm.line \in 1..Len(JobLines(tool))
    /\ stderr' = Append(stderr, Line("print_manager", 0, "traceback"))
    /\ UNCHANGED stdout
    /\ pm' = [pm EXCEPT !.line = -1]
    /\ UNCHANGED <<tool, supplied, run, inventory, firewalls, fate, pc, nxt, wpc, print_queue,
                   print_unfinished, results_queue, results_unfinished, rm,
                   results, sigints, caught, exit_code>>

PMTaskDone ==
    /\ Alive
    /\ pm # Idle
    /\ pm.line > Len(JobLines(tool))
    /\ print_unfinished' = print_unfinished - 1
    /\ pm' = Idle
    /\ UNCHANGED <<tool, supplied, run, inventory, firewalls, fate, pc, nxt, wpc, print_queue,
                   results_queue, results_unfinished, rm, results, stdout, stderr,
                   sigints, caught, exit_code>>

\* ------------------------------------------------------------------------
\* results_manager (daemon thread of get_panw_interfaces).

RMGet ==
    /\ Alive
    /\ HasResultsManager(tool)
    /\ rm = 0
    /\ results_queue # <<>>
    /\ rm' = Head(results_queue)
    /\ results_queue' = Tail(results_queue)
    /\ UNCHANGED <<tool, supplied, run, inventory, firewalls, fate, pc, nxt, wpc, print_queue,
                   print_unfinished, results_unfinished, pm, results, stdout, stderr,
                   sigints, caught, exit_code>>

\* Mutant: results.insert(0, result) instead of results.append(result).
RMPrepend ==
    /\ Alive
    /\ rm > 0
    /\ results' = <<rm>> \o results
    /\ rm' = -rm
    /\ UNCHANGED <<tool, supplied, run, inventory, firewalls, fate, pc, nxt, wpc, print_queue,
                   print_unfinished, results_queue, results_unfinished, pm,
                   stdout, stderr, sigints, caught, exit_code>>

RMAppend ==
    /\ Alive
    /\ rm > 0
    /\ results' = Append(results, rm)
    /\ rm' = -rm
    /\ UNCHANGED <<tool, supplied, run, inventory, firewalls, fate, pc, nxt, wpc, print_queue,
                   print_unfinished, results_queue, results_unfinished, pm,
                   stdout, stderr, sigints, caught, exit_code>>

RMTaskDone ==
    /\ Alive
    /\ rm < 0
    /\ results_unfinished' = results_unfinished - 1
    /\ rm' = 0
    /\ UNCHANGED <<tool, supplied, run, inventory, firewalls, fate, pc, nxt, wpc, print_queue,
                   print_unfinished, results_queue, pm, results, stdout, stderr,
                   sigints, caught, exit_code>>

\* ------------------------------------------------------------------------
\* get_panw_config_set: the sequential loop in the main thread.

\* Mutant: the loop goes on to the next host without waiting for the
\* session of this one.
SeqConnectNoWait ==
    /\ pc = "dispatch"
    /\ Sequential(tool)
    /\ IF nxt <= N
       THEN /\ wpc' = [wpc EXCEPT ![nxt] = "op"]
            /\ nxt' = nxt + 1
            /\ pc' = pc
       ELSE /\ pc' = "exit"
            /\ UNCHANGED <<wpc, nxt>>
    /\ UNCHANGED <<tool, supplied, run, inventory, firewalls, fate, print_queue, print_unfinished,
                   results_queue, results_unfinished, pm, rm, results, stdout, stderr,
                   sigints, caught, exit_code>>

SeqConnect ==
    /\ pc = "dispatch"
    /\ Sequential(tool)
    /\ IF nxt <= N
       THEN /\ wpc' = [wpc EXCEPT ![nxt] = "op"]
            /\ pc' = "seq_op"
       ELSE /\ pc' = "exit"
            /\ UNCHANGED wpc
    /\ UNCHANGED <<tool, supplied, run, inventory, firewalls, fate, nxt, print_queue, print_unfinished,
                   results_queue, results_unfinished, pm, rm, results, stdout, stderr,
                   sigints, caught, exit_code>>

\* The commands ran: disconnect, print(output), next host.
SeqPrint ==
    /\ pc = "seq_op"
    /\ fate[nxt] = "ok"
    /\ stdout' = Append(stdout, Line("main", nxt, "config"))
    /\ UNCHANGED stderr
    /\ wpc' = [wpc EXCEPT ![nxt] = "done"]
    /\ nxt' = nxt + 1
    /\ pc' = "dispatch"
    /\ UNCHANGED <<tool, supplied, run, inventory, firewalls, fate, print_queue, print_unfinished,
                   results_queue, results_unfinished, pm, rm, results,
                   sigints, caught, exit_code>>

\* net_connect is unbound in the finally clause only when the very first
\* ConnectHandler call raised.
SeqUnbound == nxt = 1 /\ fate[nxt] = "connect"

\* Mutant: the except clause writes the error and the loop goes on with
\* the next host.
SeqFailContinues ==
    /\ pc = "seq_op"
    /\ fate[nxt] # "ok"
    /\ stderr' = Append(stderr, Line("main", nxt, "error"))
    /\ UNCHANGED stdout
    /\ wpc' = [wpc EXCEPT ![nxt] = "done"]
    /\ nxt' = nxt + 1
    /\ pc' = "dispatch"
    /\ UNCHANGED <<tool, supplied, run, inventory, firewalls, fate,
                   print_queue, print_unfinished, results_queue,
                   results_unfinished, pm, rm, results, sigints, caught,
                   exit_code>>

\* The except clause: write the error, sys.exit(1); the finally clause may
\* replace the SystemExit by an UnboundLocalError, reported at exit.
SeqFail ==
    /\ pc = "seq_op"
    /\ fate[nxt] # "ok"
    /\ stderr' = stderr \o <<Line("main", nxt, "error")>>
                        \o (IF SeqUnbound
                            THEN <<Line("main", nxt, "traceback")>>
                            ELSE <<>>)
    /\ UNCHANGED stdout
    /\ wpc' = [wpc EXCEPT ![nxt] = "done"]
    /\ exit_code' = 1
    /\ pc' = "shutdown"
    /\ UNCHANGED <<tool, supplied, run, inventory, firewalls, fate, nxt, print_queue, print_unfinished,
                   results_queue, results_unfinished, pm, rm, results,
                   sigints, caught>>

\* The steps of the process itself.
Program ==
    \/ Dispatch
    \/ JoinWorkers
    \/ ResultsJoin
    \/ PrintJoin
    \/ PrintResults
    \/ FinalExit
    \/ Shutdown
    \/ \E i \in 1..N : WorkerSucceed(i)
    \/ \E i \in 1..N : WorkerFail(i)
    \/ \E i \in 1..N : WorkerWrite(i)
    \/ PMGet
    \/ PMPrint
    \/ PMRaise
    \/ PMTaskDone
    \/ RMGet
    \/ RMAppend
    \/ RMTaskDone
    \/ SeqConnect
    \/ SeqPrint
    \/ SeqFail

\* The process and its environment (the signal).
Next == Program \/ Sigint

Spec == Init /\ [][Next]_vars

\* main is called again in the same interpreter with the same arguments:
\* its caller caught the SystemExit of the final sys.exit(0).  The module
\* is not loaded again, so the module-level objects stay what they are:
\* results, the queues (empty after the joins) and the output so far.  The
\* new call starts its own threads; the managers of the earlier call are
\* still blocked in get() on the same queues, and the model lets one
\* manager per queue take the items.
RunAgain ==
    /\ pc = "exit"
    /\ run < MaxRuns
    /\ run' = run + 1
    /\ pc' = "dispatch"
    /\ nxt' = 1
    /\ wpc' = [i \in 1..N |-> "new"]
    /\ UNCHANGED <<tool, supplied, inventory, firewalls, fate, print_queue,
                   print_unfinished, results_queue, results_unfinished, pm,
                   rm, results, stdout, stderr, sigints, caught, exit_code>>

NextTwice == Next \/ RunAgain

\* A process in which main may be called more than once.
SpecTwice == Init /\ [][NextTwice]_vars

TypeOK ==
    /\ tool \in Tools
    /\ run \in 1..MaxRuns
    /\ nxt \in 1..(N + 1)
    /\ exit_code \in {-1, 0, 1}
    /\ print_unfinished >= 0
    /\ results_unfinished >= 0

\* ------------------------------------------------------------------------
\* Observations used by the properties.

RECURSIVE Count(_, _)
Count(s, x) ==
    IF s = <<>> THEN 0
    ELSE (IF Head(s) = x THEN 1 ELSE 0) + Count(Tail(s), x)

\* The lines of stdout that belong to target i.
StdoutLines(i) == Cardinality({k \in 1..Len(stdout) : stdout[k].tgt = i})

\* The number of stdout lines in which a successful target's result shows.
ExpectedLines(t) ==
    IF Sequential(t) \/ UsesResultsQueue(t) THEN 1 ELSE Len(JobLines(t))

\* The result of target i is completely on stdout.
Rendered(i) == StdoutLines(i) = ExpectedLines(tool)

RECURSIVE Elems(_)
Elems(s) == IF s = <<>> THEN {} ELSE {Head(s)} \cup Elems(Tail(s))

\* The job of target i was put on a queue (it is waiting, held by a
\* manager, or was handled).
Emitted(i) ==
    \/ i \in Elems(print_queue) \/ pm.job = i
    \/ i \in Elems(results_queue) \/ rm = i \/ rm = -i
    \/ i \in Elems(results)
    \/ \E k \in 1..Len(stdout) :
          stdout[k].tgt = i /\ stdout[k].by = "print_manager"

Succeeds == {i \in 1..N : fate[i] = "ok"}

Fails == {i \in 1..N : fate[i] # "ok"}

NormalEnd == pc = "exited" /\ sigints = 0

\* ------------------------------------------------------------------------
\* C1 (isolation, as claimed): the outcome of a target depends on its own
\* operation only: in a run without interrupt every target whose own
\* operation succeeds has its result rendered, whatever the other targets
\* do.  Fails in get_panw_config_set, where the first failing host ends the
\* run.
C1_Isolation == NormalEnd => \A i \in Succeeds : Rendered(i)

\* ------------------------------------------------------------------------
\* The items of target i in the final result set: elements of results in
\* get_panw_interfaces, jobs printed from print_queue otherwise.
Delivered(i) ==
    IF UsesResultsQueue(tool) THEN Count(results, i)
    ELSE Cardinality({k \in 1..Len(stdout) :
            /\ stdout[k].tgt = i
            /\ stdout[k].by = "print_manager"
            /\ stdout[k].kind = JobLines(tool)[Len(JobLines(tool))]})

\* C2 (completeness, as claimed): after a run of a threaded tool without
\* interrupt the result set holds exactly one outcome for every target.
C2_OnePerTarget ==
    (NormalEnd /\ ~Sequential(tool)) => \A i \in 1..N : Delivered(i) = 1

\* C2 (amended): after a run of a threaded tool without interrupt the
\* result set holds exactly one item for every target whose operation
\* succeeded and none for a target whose operation failed.
C2_OnePerSuccess ==
    (NormalEnd /\ ~Sequential(tool)) =>
        \A i \in 1..N : Delivered(i) = (IF fate[i] = "ok" THEN 1 ELSE 0)

C2_Witness ==
    /\ NormalEnd
    /\ ~Sequential(tool)
    /\ N = 2
    /\ fate[1] # "ok"
    /\ fate[2] = "ok"
    /\ Delivered(1) = 0
    /\ Delivered(2) = 1

\* ------------------------------------------------------------------------
\* The values of concurrency_limit the specification is stated for; the
\* source has no such parameter.
ConcurrencyLimits == {1, 5, 25}

\* C3 (bounded concurrency, as claimed): with more targets than the limit,
\* at most concurrency_limit workers are inside the operation at once.
C3_BoundedConcurrency ==
    \A limit \in ConcurrencyLimits :
        N > limit => Cardinality(InFlight) <= limit

\* C3 (amended): the workers inside the operation at the same time are
\* bounded by the number of threads main has started so far only, one per
\* target, so all targets can be in flight at once; get_panw_config_set
\* has at most one operation in progress.
C3_InFlightBound ==
    Cardinality(InFlight) <= (IF Sequential(tool) THEN 1 ELSE nxt - 1)

C3_Witness ==
    /\ ~Sequential(tool)
    /\ N >= 2
    /\ InFlight = 1..N

\* ------------------------------------------------------------------------
\* Threads whose next step is a write to stdout or stderr.
Writing ==
    (IF pm # Idle /\ pm.line \in 1..Len(JobLines(tool)) THEN 1 ELSE 0)
    + Cardinality({i \in 1..N : wpc[i] \in {"w1", "w2"}})
    + (IF pc \in {"print_results", "seq_op"} THEN 1 ELSE 0)

\* C4 (single writer, as claimed): never are two threads writing at the
\* same time, and no line of the output was written by a worker thread.
C4_SingleWriter ==
    /\ Writing <= 1
    /\ \A k \in 1..Len(stdout) : stdout[k].by # "worker"
    /\ \A k \in 1..Len(stderr) : stderr[k].by # "worker"

\* ------------------------------------------------------------------------
TablePrinted == \E k \in 1..Len(stderr) : stderr[k].kind = "header"

\* The targets of the table rows, in the order of the rows.
RECURSIVE RowTargets(_)
RowTargets(o) ==
    IF o = <<>> THEN <<>>
    ELSE (IF Head(o).kind = "row" THEN <<Head(o).tgt>> ELSE <<>>)
         \o RowTargets(Tail(o))

RECURSIVE NamesOf(_)
NamesOf(is) ==
    IF is = <<>> THEN <<>> ELSE <<firewalls[Head(is)]>> \o NamesOf(Tail(is))

\* The successful targets from position i on, in the order of the list.
RECURSIVE SucceedsFrom(_)
SucceedsFrom(i) ==
    IF i > N THEN <<>>
    ELSE (IF fate[i] = "ok" THEN <<i>> ELSE <<>>) \o SucceedsFrom(i + 1)

\* C5 (submission order, as claimed): the hosts of the table of
\* get_panw_interfaces appear in the order of the target list.
C5_SubmissionOrder ==
    (tool = "get_panw_interfaces" /\ TablePrinted) =>
        NamesOf(RowTargets(stdout)) = NamesOf(SucceedsFrom(1))

\* The results in the order the workers put them on results_queue.
PutOrder ==
    results \o (IF rm > 0 THEN <<rm>> ELSE <<>>) \o results_queue

\* C5 (amended): the hosts of the table appear in the order in which their
\* workers put the results on results_queue (the order of completion):
\* a put extends that order at its end, nothing else changes it, and
\* print_results renders exactly that order.
C5_ArrivalOrder ==
    [][tool = "get_panw_interfaces" =>
          /\ \/ PutOrder' = PutOrder
             \/ \E i \in InFlight : PutOrder' = Append(PutOrder, i)
          /\ (TablePrinted' /\ ~TablePrinted) => RowTargets(stdout') = PutOrder
      ]_vars

C5_Witness ==
    /\ tool = "get_panw_interfaces"
    /\ TablePrinted
    /\ firewalls = <<"fw-a", "fw-b">>
    /\ RowTargets(stdout) = <<2, 1>>

\* ------------------------------------------------------------------------
\* C6 (drain before exit): when main has called its final sys.exit(0),
\* every worker has ended, the queues are empty, the managers hold nothing
\* and every job a worker put is completely written (or is in results).
C6_DrainBeforeExit ==
    exit_code = 0 =>
        /\ \A i \in 1..N : wpc[i] = "done"
        /\ print_queue = <<>> /\ print_unfinished = 0 /\ pm = Idle
        /\ results_queue = <<>> /\ results_unfinished = 0 /\ rm = 0
        /\ \A i \in Succeeds : Rendered(i)

C6_Witness ==
    /\ exit_code = 0
    /\ ~Sequential(tool)
    /\ N >= 2
    /\ \A i \in 1..N : fate[i] = "ok" /\ Rendered(i)

\* ------------------------------------------------------------------------
\* C7 (failure rendering, as claimed): after a run without interrupt the
\* output holds, for every target whose operation failed, a failure line
\* that names the host.
C7_FailureRendered ==
    NormalEnd =>
        \A i \in Fails :
            \E k \in 1..Len(stderr) :
                /\ stderr[k].tgt = i
                /\ stderr[k].kind = "error"
                /\ RefsHost(tool, "error")

\* ------------------------------------------------------------------------
\* C8 (cancellation discards, as claimed): a worker that was inside its
\* operation when the interrupt arrived never emits its outcome.
C8_DiscardAfterTrip == \A i \in caught : ~Emitted(i)

\* C8 (amended): there is no cancellation flag.  In the threaded tools a
\* worker that was inside its operation when the interrupt arrived runs to
\* its end before the process ends (unless a second interrupt ends the
\* wait for it), and when its operation succeeds its outcome is put on the
\* queue all the same; the process may end before the manager has handled
\* it.
C8_CaughtWorkersEmit ==
    (pc = "exited" /\ sigints = 1 /\ ~Sequential(tool)) =>
        \A i \in caught :
            /\ wpc[i] = "done"
            /\ fate[i] = "ok" => Emitted(i)

C8_Witness ==
    /\ pc = "exited"
    /\ sigints = 1
    /\ ~Sequential(tool)
    /\ N = 2
    /\ caught = {2}
    /\ Rendered(1)
    /\ Emitted(2)
    /\ ~Rendered(2)

\* ------------------------------------------------------------------------
\* The target has no outcome: nothing on a queue or in results, no line.
NoOutcome(i) ==
    /\ ~Emitted(i)
    /\ \A k \in 1..Len(stdout) : stdout[k].tgt # i
    /\ \A k \in 1..Len(stderr) : stderr[k].tgt # i

\* C9 (cancellation before start): once the interrupt has arrived no
\* further worker is started and a target that was not started has no
\* outcome; a run interrupted before any start ends with no outcome at
\* all and status 1.
C9_AbandonUnstarted ==
    [][sigints >= 1 =>
          /\ Started' = Started
          /\ \A i \in (1..N) \ Started : NoOutcome(i)'
          /\ (pc' = "exited" /\ Started = {}) =>
                 /\ \A i \in 1..N : NoOutcome(i)'
                 /\ exit_code' = 1
      ]_vars

C9_Witness ==
    /\ pc = "exited"
    /\ sigints = 1
    /\ exit_code = 1
    /\ N = 2
    /\ Started = {1}
    /\ NoOutcome(2)

\* ------------------------------------------------------------------------
\* C10 (distinct exit code, as claimed): status 1, with which
\* sigint_handler ends the process, is the exit code of the interrupted
\* runs and of no other run.
C10_DistinctCode == pc = "exited" => (exit_code = 1 <=> sigints >= 1)

\* C10 (amended): an interrupted run exits with 1, a fully successful run
\* with 0.  A run with failed hosts and no interrupt exits with 0 in the
\* threaded tools, like a success, and with 1 in get_panw_config_set, like
\* an interrupted run.
C10_ExitCodes ==
    pc = "exited" =>
        exit_code = (IF sigints >= 1 \/ (Sequential(tool) /\ Fails # {})
                     THEN 1 ELSE 0)

C10_Witness ==
    /\ pc = "exited"
    /\ sigints = 1
    /\ exit_code = 1
    /\ Fails = {}
    /\ N >= 1

\* ------------------------------------------------------------------------
\* C11 (exit status of partial failure, as claimed): without interrupt the
\* process ends with a non-zero status only if every target failed; a run
\* in which a target succeeded ends with status 0.  Fails in
\* get_panw_config_set, where the first failing host ends the run with
\* sys.exit(1) whatever the hosts before it did.
C11_NonZeroOnlyIfAllFailed ==
    (NormalEnd /\ \E i \in Succeeds : Rendered(i)) => exit_code = 0

\* ------------------------------------------------------------------------
\* C12 (aggregator failure is fatal, as claimed): once a print has raised
\* in print_manager the process does not hang: until it has ended, some
\* step of it can be taken.  Fails: the job print_manager held is never
\* marked done, so main blocks in print_queue.join() for ever.
C12_AggregatorFailureFatal ==
    (PMDead /\ pc # "exited") => ENABLED Program

\* ------------------------------------------------------------------------
\* A run given an empty piped target list.
EmptyPiped == supplied.piped /\ supplied.targets = <<>>

\* C13 (empty target set, as claimed): a run given an empty piped target
\* list starts no worker, operates on no host, and ends without interrupt
\* in success with nothing written.  Fails in get_panw_config and
\* run_panw_cmd, which contact the default firewall, and in
\* get_panw_interfaces, which starts one worker per character of the
\* default firewall's name.
C13_EmptyTargetSet ==
    EmptyPiped =>
        /\ Started = {}
        /\ NormalEnd => (exit_code = 0 /\ stdout = <<>> /\ stderr = <<>>)

\* ------------------------------------------------------------------------
\* C14 (idempotent trip, as claimed): a run of a threaded tool that was
\* interrupted more than once ends as a run interrupted once does: with
\* status 1, after every worker that had been started has ended, the
\* successful ones having put their outcome.  Fails: the second SIGINT
\* raises SystemExit in the interpreter's wait for the workers and the
\* process ends without them.
C14_IdempotentTrip ==
    (pc = "exited" /\ sigints >= 1 /\ ~Sequential(tool)) =>
        /\ exit_code = 1
        /\ \A i \in Started :
              /\ wpc[i] = "done"
              /\ (i \in caught /\ fate[i] = "ok") => Emitted(i)

C16_FreshRunState ==
    (tool = "get_panw_interfaces" /\ run >= 2 /\ pc = "print_results") =>
        \A i \in 1..N : Count(results, i) = (IF fate[i] = "ok" THEN 1 ELSE 0)

\* ------------------------------------------------------------------------
\* The worker of target i has put its item on its queue.
Put(i) == ~Sequential(tool) /\ wpc[i] = "done" /\ fate[i] = "ok"

\* The places the item of target i is in: waiting on a queue, held by the
\* manager that took it, or handled (completely printed, or in results).
Copies(i) ==
    Count(print_queue, i) + Count(results_queue, i)
    + (IF pm.job = i THEN 1 ELSE 0)
    + (IF rm = i THEN 1 ELSE 0)
    + (IF pm.job # i THEN Delivered(i) ELSE 0)

\* C17 (exactly-once delivery): in a run of a threaded tool the item a
\* worker has put is in exactly one place at any time (on its queue, with
\* the one manager that took it, or handled), an item that was not put is
\* nowhere, and no more lines are written for an item than it has.
C17_ExactlyOnce ==
    ~Sequential(tool) =>
        \A i \in 1..N :
            /\ Copies(i) = (IF Put(i) THEN 1 ELSE 0)
            /\ StdoutLines(i) <= ExpectedLines(tool)

C17_Witness ==
    /\ tool = "run_panw_cmd"
    /\ N = 2
    /\ Put(1) /\ Put(2)
    /\ Delivered(2) = 1
    /\ pm.job = 1
    /\ pm.line = 3

\* ------------------------------------------------------------------------
\* The positions of host h in the target list.
Occurrences(h) == {i \in 1..N : firewalls[i] = h}

\* The items of host h in the final result set.
RECURSIVE ResultsFrom(_, _)
ResultsFrom(i, h) ==
    IF i > N THEN 0
    ELSE (IF firewalls[i] = h THEN Delivered(i) ELSE 0) + ResultsFrom(i + 1, h)

\* C18 (duplicate hosts, as claimed): after a run of a threaded tool
\* without interrupt a host that is k times in the target list has k
\* items in the result set.
C18_DuplicateResults ==
    (NormalEnd /\ ~Sequential(tool)) =>
        \A i \in 1..N :
            ResultsFrom(1, firewalls[i]) = Cardinality(Occurrences(firewalls[i]))

\* C18 (amended): the workers are started one per element of the list, in
\* list order; after a run without interrupt every element has had its own
\* worker, and a host that is k times in the list has one item in the
\* result set for each of its k operations that succeeded.
C18_OneWorkerPerElement ==
    ~Sequential(tool) =>
        /\ Started = 1..(nxt - 1)
        /\ NormalEnd =>
              /\ Started = 1..N
              /\ \A i \in 1..N :
                    ResultsFrom(1, firewalls[i]) =
                        Cardinality(Occurrences(firewalls[i]) \cap Succeeds)

C18_Witness ==
    /\ NormalEnd
    /\ ~Sequential(tool)
    /\ firewalls = <<"fw-a", "fw-a">>
    /\ Succeeds = {1, 2}
    /\ ResultsFrom(1, "fw-a") = 2

\* ------------------------------------------------------------------------
\* C19 (block atomicity): the lines print_manager writes for one job are
\* next to each other on stdout: between two lines of the same job there
\* is no line of another one, whatever the order in which the workers end.
C19_BlockAtomicity ==
    \A k1, k2, k3 \in 1..Len(stdout) :
        (k1 < k2 /\ k2 < k3 /\ stdout[k1].tgt = stdout[k3].tgt) =>
            stdout[k2].tgt = stdout[k1].tgt

C19_Witness ==
    /\ tool = "get_panw_config_ssh"
    /\ N = 2
    /\ Rendered(1) /\ Rendered(2)
    /\ stdout[1].tgt = 2
    /\ stdout[1].kind = "rule"
    /\ stdout[Len(stdout)].tgt = 1
    /\ stdout[Len(stdout)].kind = "config"

\* ------------------------------------------------------------------------
\* C20 (clean cancellation, as claimed): when an interrupted run has
\* ended, every block that is on stdout is there with all its lines.
\* Fails: print_manager is a daemon thread the interrupted process does
\* not wait for, so the process can end between two lines of a block.
C20_CleanCancellation ==
    (pc = "exited" /\ sigints >= 1) =>
        \A i \in 1..N : StdoutLines(i) \in {0, ExpectedLines(tool)}

\* ------------------------------------------------------------------------
\* Fair scheduling: a thread that can take a step is eventually run, and
\* every per-host operation returns or raises (WorkerSucceed, WorkerFail,
\* SeqPrint and SeqFail are steps of Program).  No step of the process
\* repeats, so weak fairness of Program as a whole is fairness of each
\* thread.  The signal is left to the environment.
FairSpec == Spec /\ WF_vars(Program)

\* C21 (termination, as claimed): under fair scheduling a run that is not
\* interrupted ends, whatever mix of hosts succeeded and failed.  Fails
\* when a print raises in print_manager (C12): main stays in
\* print_queue.join() for ever.
C21_Termination == <>(sigints >= 1 \/ pc = "exited")

\* The runs of C21 in which print_manager stays alive do end, the threaded
\* tools by their final sys.exit(0).
TerminationWithSink ==
    <>(sigints >= 1 \/ PMDead
         \/ (pc = "exited" /\ (Sequential(tool) \/ exit_code = 0)))

\* ------------------------------------------------------------------------
\* The jobs print_manager has written lines of, in the order in which
\* their first lines are on stdout.
RECURSIVE JobsFrom(_, _)
JobsFrom(o, seen) ==
    IF o = <<>> THEN <<>>
    ELSE IF Head(o).by = "print_manager" /\ Head(o).tgt \notin seen
         THEN <<Head(o).tgt>> \o JobsFrom(Tail(o), seen \cup {Head(o).tgt})
         ELSE JobsFrom(Tail(o), seen)

JobsOf(o) == JobsFrom(o, {})

\* The jobs in the order in which print_manager renders them: those it has
\* begun to print, the one it holds, those waiting on print_queue.
RenderOrder ==
    LET r == JobsOf(stdout)
    IN r \o (IF pm.job # 0 /\ pm.job \notin Elems(r) THEN <<pm.job>> ELSE <<>>)
         \o print_queue

\* C22 (arrival-order rendering): in the tools that print through
\* print_queue the jobs are rendered in the order in which the workers put
\* them: a put extends the order at its end and no other step changes it.
C22_FifoRendering ==
    [][(~Sequential(tool) /\ ~UsesResultsQueue(tool)) =>
          \/ RenderOrder' = RenderOrder
          \/ \E i \in InFlight :
                /\ RenderOrder' = Append(RenderOrder, i)
                /\ print_queue' = Append(print_queue, i)
      ]_vars

\* The job of the second host is completely rendered while the worker of
\* the first host is still inside its operation.
C22_Witness ==
    /\ tool = "get_panw_api_key"
    /\ N = 2
    /\ wpc[1] = "op"
    /\ Rendered(2)
    /\ JobsOf(stdout) = <<2>>
    /\ pm = Idle

\* ------------------------------------------------------------------------
\* main of get_panw_interfaces reads results (it is about to call
\* print_results) or has rendered the table.
ReadsResults ==
    \/ pc = "print_results"
    \/ TablePrinted
    \/ \E k \in 1..Len(stdout) : stdout[k].kind = "row"

\* C23 (buffering in table mode): in get_panw_interfaces main does not
\* read results and no row is rendered before every worker thread has
\* ended and results_manager has appended every item that was put; while
\* main reads results, results_manager holds nothing it could append.
C23_BufferedTable ==
    (HasResultsManager(tool) /\ ReadsResults) =>
        /\ \A i \in 1..N : wpc[i] = "done"
        /\ results_queue = <<>>
        /\ results_unfinished = 0
        /\ rm = 0
        /\ \A i \in 1..N : Count(results, i) = (IF Put(i) /\ UsesResultsQueue(tool)
                                                THEN 1 ELSE 0)

C23_Witness ==
    /\ tool = "get_panw_interfaces"
    /\ pc = "print_results"
    /\ N = 2
    /\ fate = <<"ok", "reply">>
    /\ results = <<1>>
    /\ stdout = <<>>

\* ------------------------------------------------------------------------
\* The whole host names of a run: the hosts that were given and the saved
\* default firewall.
WholeHosts ==
    {supplied.targets[k] : k \in 1..Len(supplied.targets)} \cup {DefaultFirewall}

\* C24 (whole-host targets, as claimed): in get_panw_interfaces every
\* worker is started with a whole host name.  Fails for piped input with
\* no non-empty line: args.firewalls becomes the default firewall's name
\* as a string and the for loop starts a worker for each of its characters.
C24_WholeHostTargets ==
    HasResultsManager(tool) =>
        \A i \in Started : firewalls[i] \in WholeHosts

\* ------------------------------------------------------------------------
\* The tools that open an SSH session per host.
UsesSsh(t) == t \in {"get_panw_config_ssh", "run_panw_cmd", "get_panw_config_set"}

\* C25 (session cleanup, as claimed): when opening the session of a host
\* fails, the connection error is reported and no second, unhandled error
\* follows from the cleanup.  Fails: the finally clause calls
\* net_connect.disconnect() although ConnectHandler raised before
\* net_connect was bound, and the UnboundLocalError is reported as a
\* traceback.
C25_SessionCleanup ==
    UsesSsh(tool) =>
        \A k \in 1..Len(stderr) :
            stderr[k].kind = "traceback" =>
                ~(stderr[k].tgt \in 1..N /\ fate[stderr[k].tgt] = "connect")

\* ------------------------------------------------------------------------
\* get_panw_firewalls: one query to the controller, parse_xml over the
\* device entries of the reply, sort, output.  No threads.

MaxEntries == 2

\* A device entry of the reply: the text of its serial, hostname and
\* connected elements, "none" when the element is missing (find returns
\* None).  The other elements (ip-address, model, uptime, sw-version) are
\* read like hostname and only fill columns.
DeviceEntries ==
    [serial : {"s1", "s2", "none"},
     hostname : {"h1", "h2", "none"},
     connected : {"yes", "no", "none"}]

\* args.terse and args.state ('not-connected' is read like 'disconnected',
\* 'any' and 'connected' like 'all').
InventoryArgs == [terse : BOOLEAN, state : {"all", "disconnected"}]

\* The variables of the threaded tools.
RunVars == <<tool, supplied, run, firewalls, fate, pc, nxt, wpc, print_queue,
             print_unfinished, results_queue, results_unfinished, pm, rm,
             results, stdout, stderr, sigints, caught, exit_code>>

InitFirewalls ==
    /\ tool = "get_panw_firewalls"
    /\ supplied = [piped |-> FALSE, targets |-> <<>>]
    /\ run = 1
    /\ firewalls = <<>>
    /\ fate = <<>>
    /\ pc = "inventory"
    /\ nxt = 1
    /\ wpc = <<>>
    /\ print_queue = <<>>
    /\ print_unfinished = 0
    /\ results_queue = <<>>
    /\ results_unfinished = 0
    /\ pm = Idle
    /\ rm = 0
    /\ results = <<>>
    /\ stdout = <<>>
    /\ stderr = <<>>
    /\ sigints = 0
    /\ caught = {}
    /\ exit_code = -1
    /\ \E a \in InventoryArgs :
       \E es \in UNION {[1..n -> DeviceEntries] : n \in 0..MaxEntries} :
          inventory = [pc |-> "query", args |-> a, entries |-> es, k |-> 1,
                       dict |-> <<>>, rows |-> <<>>]

\* query_api: the reply arrives, or urlopen raises and SystemExit ends
\* the run.
FwQueryApi ==
    /\ inventory.pc = "query"
    /\ \E ok \in BOOLEAN :
          inventory' = [inventory EXCEPT !.pc = IF ok THEN "parse" ELSE "failed"]
    /\ UNCHANGED RunVars

\* The try/except AttributeError around find(...).text.
FieldText(v) == IF v = "none" THEN "n/a" ELSE v

\* The two "continue" of parse_xml.
Skipped(a, e) ==
    \/ a.terse /\ e.connected # "yes"
    \/ a.state = "disconnected" /\ e.connected = "yes"

\* results.update({serial: {...}}) on a dict kept as the sequence of its
\* items in insertion order: an existing key keeps its place and gets the
\* new value.
DictUpdate(d, key, val) ==
    IF \E p \in 1..Len(d) : d[p].key = key
    THEN [p \in 1..Len(d) |-> IF d[p].key = key
                               THEN [key |-> key, val |-> val] ELSE d[p]]
    ELSE Append(d, [key |-> key, val |-> val])

\* One iteration of the for loop of parse_xml.  firewall.find('connected')
\* .text is outside any try: a missing element raises AttributeError and
\* main ends with a traceback before anything is printed.
FwParseEntry ==
    /\ inventory.pc = "parse"
    /\ inventory.k <= Len(inventory.entries)
    /\ LET e == inventory.entries[inventory.k]
       IN inventory' =
            IF e.connected = "none"
            THEN [inventory EXCEPT !.pc = "crashed"]
            ELSE IF Skipped(inventory.args, e)
            THEN [inventory EXCEPT !.k = @ + 1]
            ELSE [inventory EXCEPT
                    !.k = @ + 1,
                    !.dict = DictUpdate(@, FieldText(e.serial),
                                        FieldText(e.hostname))]
    /\ UNCHANGED RunVars

\* The sort key (hostname == 'n/a', hostname) as a rank.
HostnameRank(h) == CASE h = "h1" -> 1 [] h = "h2" -> 2 [] OTHER -> 3

RECURSIVE InsertByHostname(_, _)
InsertByHostname(x, s) ==
    IF s = <<>> THEN <<x>>
    ELSE IF HostnameRank(Head(s).val) <= HostnameRank(x.val)
         THEN <<Head(s)>> \o InsertByHostname(x, Tail(s))
         ELSE <<x>> \o s

\* sorted(firewalls.items(), key=...): stable.
RECURSIVE SortedByHostname(_)
SortedByHostname(d) ==
    IF d = <<>> THEN <<>>
    ELSE InsertByHostname(d[Len(d)], SortedByHostname(SubSeq(d, 1, Len(d) - 1)))

\* The loop is over: sort, output (one row per item of the dict),
\* sys.exit(0).
FwOutput ==
    /\ inventory.pc = "parse"
    /\ inventory.k > Len(inventory.entries)
    /\ inventory' = [inventory EXCEPT !.pc = "done",
                                      !.rows = SortedByHostname(inventory.dict)]
    /\ UNCHANGED RunVars

NextFirewalls == FwQueryApi \/ FwParseEntry \/ FwOutput

SpecFirewalls == InitFirewalls /\ [][NextFirewalls]_vars

\* The entries of the reply that pass the terse/state filter.
Passing ==
    {k \in 1..Len(inventory.entries) :
        ~Skipped(inventory.args, inventory.entries[k])}

\* C26 (inventory completeness, as claimed): when get_panw_firewalls has
\* printed its list, there is one row for every device entry that passes
\* the filter.  Fails: results is a dict keyed by the serial number, so
\* entries without a serial all get the key 'n/a' and only the last one is
\* left.
C26_InventoryComplete ==
    inventory.pc = "done" => Len(inventory.rows) = Cardinality(Passing)

\* ------------------------------------------------------------------------
\* The position of the first host whose session fails (N + 1 when none).
RECURSIVE FirstFailFrom(_)
FirstFailFrom(i) ==
    IF i > N \/ fate[i] # "ok" THEN i ELSE FirstFailFrom(i + 1)

\* C27 (sequential variant): get_panw_config_set contacts the hosts one at
\* a time in list order, with at most one session at any time; the
\* configurations on stdout are those of the hosts 1, 2, ... in that order
\* and never reach the first failing host; a run that ends without
\* interrupt has printed every host before the first failing one.
C27_SequentialPrefix ==
    Sequential(tool) =>
        /\ Cardinality(Running) <= 1
        /\ Started \subseteq 1..nxt
        /\ \A i \in Running : i = nxt
        /\ \A k \in 1..Len(stdout) : stdout[k].tgt = k /\ stdout[k].kind = "config"
        /\ Len(stdout) < FirstFailFrom(1)
        /\ NormalEnd => Len(stdout) = FirstFailFrom(1) - 1

C27_Witness ==
    /\ Sequential(tool)
    /\ NormalEnd
    /\ N = 2
    /\ fate = <<"ok", "connect">>
    /\ Len(stdout) = 1
    /\ Started = {1, 2}

====
